---- MODULE Spec2Model ----
(***************************************************************************)
(* Model of the RAG indexing pipeline of web/scripts: the chunker          *)
(* (chunk.ts), the store operations (supabase.ts), the source adapters     *)
(* (tables.ts) and the orchestrator RAGIndexer (build-index.ts).           *)
(*                                                                         *)
(* Text.  A JavaScript string is modelled by its sequence of maximal runs: *)
(* a run of whitespace ("s") or a run of non-whitespace characters, a word *)
(* ("w").  A run keeps its length, a word also keeps an identity and       *)
(* whether its last character is one of . ! ?  Every string operation the  *)
(* code performs (length, trim, split on /\s+/, split on                   *)
(* /(?<=[.!?])\s+/, joining with ' ') is determined by these runs, so the  *)
(* operators below compute what the code computes.                         *)
(***************************************************************************)
EXTENDS Integers, Sequences, FiniteSets, TLC

\* ------------------------------------------------------------------ text

W(id, n, t) == [k |-> "w", id |-> id, len |-> n, term |-> t]

WS(n) == [k |-> "s", id |-> 0, len |-> n, term |-> FALSE]

EmptyStr == << >>

SP == << WS(1) >>

\* string.length
StrLen(s) ==
  LET f[i \in 0..Len(s)] == IF i = 0 THEN 0 ELSE f[i-1] + s[i].len
  IN  f[Len(s)]

\* a + b (two whitespace runs that meet become one run)
Cat(a, b) ==
  IF a = << >> THEN b
  ELSE IF b = << >> THEN a
  ELSE IF a[Len(a)].k = "s" /\ b[1].k = "s"
       THEN SubSeq(a, 1, Len(a) - 1) \o << WS(a[Len(a)].len + b[1].len) >> \o Tail(b)
       ELSE a \o b

\* a + ' ' + b
JoinSp(a, b) == Cat(Cat(a, SP), b)

\* string.trim()
Trim(s) ==
  LET a == IF s # << >> /\ s[1].k = "s" THEN Tail(s) ELSE s
  IN  IF a # << >> /\ a[Len(a)].k = "s" THEN SubSeq(a, 1, Len(a) - 1) ELSE a

\* string.split(separator): the pieces between the runs at the positions
\* seps, which the separator matches; the empty string splits into one empty
\* piece
SplitAt(s, seps) ==
  LET f[i \in 0..Len(s)] ==
        IF i = 0 THEN << << >> >>
        ELSE LET p == f[i-1]
             IN  IF i \in seps THEN Append(p, << >>)
                 ELSE [p EXCEPT ![Len(p)] = Append(@, s[i])]
  IN  f[Len(s)]

\* /(?<=[.!?])\s+/ matches the run at i
IsSentenceGap(s, i) == s[i].k = "s" /\ i > 1 /\ s[i-1].term

\* /\s+/ matches the run at i
IsWhitespace(s, i) == s[i].k = "s"

\* string.split(/\s+/)
SplitWords(s) == SplitAt(s, {i \in 1..Len(s) : IsWhitespace(s, i)})

\* array.join(' ')
JoinWords(ws) ==
  LET f[i \in 0..Len(ws)] ==
        IF i = 0 THEN << >>
        ELSE IF i = 1 THEN ws[1]
        ELSE JoinSp(f[i-1], ws[i])
  IN  f[Len(ws)]

NonEmptyStr(s) == s # << >>

splitIntoSentences(text) ==
  LET parts == SplitAt(text, {i \in 1..Len(text) : IsSentenceGap(text, i)})
      trimmed == [i \in 1..Len(parts) |-> Trim(parts[i])]
  IN  SelectSeq(trimmed, NonEmptyStr)

\* an overlap text taken from the first words of the chunk
getOverlapTextHead(previousChunk, overlapSize) ==
  IF previousChunk = << >> \/ overlapSize <= 0 THEN << >>
  ELSE LET words == SplitWords(previousChunk)
       IN  IF Len(words) <= overlapSize THEN previousChunk
           ELSE JoinWords(SubSeq(words, 1, overlapSize))

getOverlapText(previousChunk, overlapSize) ==
  IF previousChunk = << >> \/ overlapSize <= 0 THEN << >>
  ELSE LET words == SplitWords(previousChunk)
       IN  IF Len(words) <= overlapSize THEN previousChunk
           ELSE JoinWords(SubSeq(words, Len(words) - overlapSize + 1, Len(words)))

\* a merge pass that joins all chunks into one
mergeSmallChunksJoinsAll(chunkList, minSize) ==
  IF Len(chunkList) = 0 THEN chunkList ELSE << JoinWords(chunkList) >>

mergeSmallChunks(chunkList, minSize) ==
  IF Len(chunkList) = 0 THEN chunkList
  ELSE LET f[i \in 1..Len(chunkList)] ==
             IF i = 1 THEN [merged |-> << >>, currentChunk |-> chunkList[1]]
             ELSE LET st == f[i-1]
                      nextChunk == chunkList[i]
                      combinedLength == StrLen(st.currentChunk) + StrLen(nextChunk)
                  IN  IF combinedLength < minSize
                      THEN [st EXCEPT !.currentChunk = JoinSp(@, nextChunk)]
                      ELSE [merged |-> Append(st.merged, st.currentChunk),
                            currentChunk |-> nextChunk]
           last == f[Len(chunkList)]
       IN  Append(last.merged, last.currentChunk)

\* the word-level loop of chunkText: st = [chunks, previousChunk, tempChunk]
WordStep(st, word, minSize, maxSize) ==
  IF StrLen(st.tempChunk) + 1 + StrLen(word) <= maxSize
  THEN [st EXCEPT !.tempChunk = IF @ # << >> THEN JoinSp(@, word) ELSE word]
  ELSE IF StrLen(st.tempChunk) >= minSize
       THEN [chunks |-> Append(st.chunks, st.tempChunk),
             previousChunk |-> st.tempChunk,
             tempChunk |-> word]
       ELSE [st EXCEPT !.tempChunk = IF @ # << >> THEN JoinSp(@, word) ELSE word]

WordSplit(chunkList, previousChunk, currentChunk, minSize, maxSize) ==
  LET words == SplitWords(currentChunk)
      f[i \in 0..Len(words)] ==
        IF i = 0 THEN [chunks |-> chunkList, previousChunk |-> previousChunk,
                       tempChunk |-> << >>]
        ELSE WordStep(f[i-1], words[i], minSize, maxSize)
      r == f[Len(words)]
  IN  [chunks |-> r.chunks, previousChunk |-> r.previousChunk,
       currentChunk |-> r.tempChunk]

\* a sentence loop that emits the buffer at the target whatever its length
SentenceStepPushesSmall(st, sentence, targetSize, minSize, maxSize) ==
  LET potentialChunk == IF st.currentChunk # << >>
                        THEN JoinSp(st.currentChunk, sentence) ELSE sentence
  IN  IF StrLen(potentialChunk) <= targetSize
      THEN [st EXCEPT !.currentChunk = potentialChunk]
      ELSE IF st.currentChunk # << >>
           THEN [chunks |-> Append(st.chunks, st.currentChunk),
                 previousChunk |-> st.currentChunk,
                 currentChunk |-> sentence]
           ELSE [st EXCEPT !.currentChunk = potentialChunk]

\* a sentence loop that emits the buffer at the target and then forgets the
\* sentence that did not fit
SentenceStepDrops(st, sentence, targetSize, minSize, maxSize) ==
  LET potentialChunk == IF st.currentChunk # << >>
                        THEN JoinSp(st.currentChunk, sentence) ELSE sentence
  IN  IF StrLen(potentialChunk) <= targetSize
      THEN [st EXCEPT !.currentChunk = potentialChunk]
      ELSE IF StrLen(st.currentChunk) >= minSize
           THEN [chunks |-> Append(st.chunks, st.currentChunk),
                 previousChunk |-> st.currentChunk,
                 currentChunk |-> << >>]
           ELSE [st EXCEPT !.currentChunk = potentialChunk]

\* one iteration of the sentence loop of chunkText:
\* st = [chunks, previousChunk, currentChunk]
SentenceStep(st, sentence, targetSize, minSize, maxSize) ==
  LET potentialChunk == IF st.currentChunk # << >>
                        THEN JoinSp(st.currentChunk, sentence) ELSE sentence
      a == IF StrLen(potentialChunk) <= targetSize
           THEN [st EXCEPT !.currentChunk = potentialChunk]
           ELSE IF StrLen(st.currentChunk) >= minSize
                THEN [chunks |-> Append(st.chunks, st.currentChunk),
                      previousChunk |-> st.currentChunk,
                      currentChunk |-> sentence]
                ELSE [st EXCEPT !.currentChunk = potentialChunk]
  IN  IF StrLen(a.currentChunk) > maxSize
      THEN IF StrLen(a.currentChunk) >= minSize
           THEN [chunks |-> Append(a.chunks, a.currentChunk),
                 previousChunk |-> a.currentChunk,
                 currentChunk |-> sentence]
           ELSE WordSplit(a.chunks, a.previousChunk, a.currentChunk, minSize, maxSize)
      ELSE a

\* a final flush that always pushes the last buffer as a chunk of its own
FlushLastNoMerge(r, minSize) == Append(r.chunks, r.currentChunk)

\* the last buffer of chunkText (lines 124-133): pushed when it reaches
\* minSize, else joined to the last chunk, else pushed as the only chunk
FlushLast(r, minSize) ==
  IF StrLen(r.currentChunk) >= minSize THEN Append(r.chunks, r.currentChunk)
  ELSE IF Len(r.chunks) > 0
       THEN [r.chunks EXCEPT ![Len(r.chunks)] = JoinSp(@, r.currentChunk)]
       ELSE Append(r.chunks, r.currentChunk)

\* the chunks of chunkText before the overlap pass (through the final flush)
PreOverlapChunks(text, targetSize, minSize, maxSize) ==
  LET sentences == splitIntoSentences(text)
      f[i \in 0..Len(sentences)] ==
        IF i = 0 THEN [chunks |-> << >>, previousChunk |-> << >>,
                       currentChunk |-> << >>]
        ELSE SentenceStep(f[i-1], sentences[i], targetSize, minSize, maxSize)
      r == f[Len(sentences)]
  IN  FlushLast(r, minSize)

\* the overlap pass of chunkText
AddOverlap(chunkList, overlap) ==
  [i \in 1..Len(chunkList) |->
     IF i > 1 /\ overlap > 0
     THEN LET overlapText == getOverlapText(chunkList[i-1], overlap)
          IN  IF overlapText # << >> THEN JoinSp(overlapText, chunkList[i]) ELSE chunkList[i]
     ELSE chunkList[i]]

\* a length test that never lets a text through whole
FitsTargetNever(text, targetSize) == FALSE

\* line 65: text.length <= targetSize
FitsTarget(text, targetSize) == StrLen(text) <= targetSize

chunkText(text, targetSize, overlap, minSize, maxSize) ==
  IF FitsTarget(text, targetSize) THEN << text >>
  ELSE mergeSmallChunks(
         AddOverlap(PreOverlapChunks(text, targetSize, minSize, maxSize), overlap),
         minSize)


\* ------------------------------------------------------------- content hash

Null == [null |-> TRUE]

\* sha256 hex digest: a collision-free tag of the text
generateContentHash(text) == [sha256 |-> text]

\* the embedding provider's vector for a text
EmbeddingOf(text) == [vector |-> text]

\* ------------------------------------------------------------------ bounds

\* runs of the indexer in one behaviour
MaxRuns == 2

\* failures of external calls (store, provider, source) in one behaviour
MaxFaults == 1

\* the arguments of chunkText in processRow
ChunkTarget == 1200

ChunkOverlap == 200

ChunkMin == 800

ChunkMax == 1500

\* ------------------------------------------------------------- source rows

\* a sentence of two words, 1000 characters long
Sentence(id) == JoinSp(<< W(id, 499, FALSE) >>, << W(id + 1, 500, TRUE) >>)

TextShort == JoinSp(<< W(1, 249, FALSE) >>, << W(2, 250, TRUE) >>)

TextShortB == << W(3, 400, TRUE) >>

TextTwo == JoinSp(Sentence(10), Sentence(12))

TextBlank == << WS(3) >>

\* a raw row: id (absent: << >>), the first content candidate, a later
\* candidate, and whether the content column holds a string
Row(id, content, alt, typ) == [id |-> id, content |-> content, alt |-> alt, typ |-> typ]

TextRow(id, content) == Row(<< id >>, content, EmptyStr, "string")

\* the TABLE_MAPPERS keys of the model (two of the nine collections)
MapperNames == {"internal_data", "press_release"}

\* two versions of the source tables.  SourceV1: a two-chunk document, a row
\* of whitespace only and a row without id in internal_data; two rows without
\* id in press_release.  SourceV2: document 1 rewritten to a one-chunk text
\* and a row whose content column holds an object in internal_data; a row
\* with no content at all in press_release.
SourceV1 == [internal_data |-> << TextRow(1, TextTwo),
                                   Row(<< 2 >>, EmptyStr, TextBlank, "string"),
                                   Row(<< >>, EmptyStr, TextShort, "string") >>,
             press_release |-> << Row(<< >>, TextShort, EmptyStr, "string"),
                                   Row(<< >>, TextShortB, EmptyStr, "string") >>]

SourceV2 == [internal_data |-> << TextRow(1, TextShortB),
                                   Row(<< 2 >>, TextShort, EmptyStr, "object") >>,
             press_release |-> << TextRow(2, EmptyStr) >>]

SourceVersions == {SourceV1, SourceV2}

\* the texts a row of the source tables can hand to the chunker
SourceContents ==
  UNION { { IF src[t][i].content # EmptyStr THEN src[t][i].content ELSE src[t][i].alt :
            i \in DOMAIN src[t] } : src \in SourceVersions, t \in MapperNames }

\* chunkText(doc.content, 1200, 200, 800, 1500) of every such text, computed
\* once: the chunker is a pure function of the text
ChunkedContents ==
  { << c, chunkText(c, ChunkTarget, ChunkOverlap, ChunkMin, ChunkMax) >> : c \in SourceContents }

chunksOf(content) == (CHOOSE p \in ChunkedContents : p[1] = content)[2]

\* run options the model draws from.  The runs of one behaviour use one table
\* list, one batch size and one start offset; the re-embedding mode is chosen
\* per run.
TableLists == { << "internal_data" >>,
                << "press_release", "no_such_table", "internal_data" >> }

Limits == {1, 2}

Offsets == {0, 1}

ReembedModes == {"none", "missing", "all"}

\* ------------------------------------------------------------------- state

VARIABLES
  source,        \* the source tables: collection name -> its rows, in order
  docIndex,      \* rag.doc_index: (source_table, source_id) -> document
  chunkTable,    \* rag.chunk_index: (document_id, chunk_index) -> chunk
  options,       \* IndexingOptions of the current run
  validTables,   \* run(): the validated table names
  stats,         \* RAGIndexer.stats: table name -> IndexingStats
  pc,            \* where the run stands
  tableIdx,      \* run(): position in validTables (1-based)
  offset,        \* processTable: offset
  rows,          \* processTable: the page being processed
  rowIdx,        \* processTable: position in rows (1-based)
  sourceDoc,     \* processRow: the transformed row
  documentId,    \* processRow: documentId
  chunks,        \* processRow: chunks
  chunkIndex,    \* processRow: chunkIndex (0-based)
  embedding,     \* processRow: embedding of the chunk about to be upserted
  runs,          \* number of runs started
  faults,        \* number of failures of external calls so far
  outcome,       \* how the last run ended: "none", "exit1" (start-up test failed),
                 \* "early" (no valid table), "reported", "failed" (run() rejected)
  fetchLog,      \* history: the page fetches of the current processTable call
  handed,        \* history: source positions handed to processRow in this call
  rowLog,        \* history: what processRow did for the current row
  runLog,        \* history: external calls counted over the current run
  prevRun,       \* history: summary of the previous run
  chunker        \* one call of chunkText, statement by statement (ChunkSpec)

vars == << source, docIndex, chunkTable, options, validTables, stats, pc, tableIdx,
           offset, rows, rowIdx, sourceDoc, documentId, chunks, chunkIndex,
           embedding, runs, faults, outcome, fetchLog, handed, rowLog, runLog,
           prevRun, chunker >>

storeVars == << docIndex, chunkTable >>

runVars == << options, validTables, runs, outcome, prevRun >>

rowVars == << sourceDoc, documentId, chunks, chunkIndex, embedding >>

\* the indexer's state, without the chunkText call of ChunkSpec
indexerVars == << source, docIndex, chunkTable, options, validTables, stats, pc,
                  tableIdx, offset, rows, rowIdx, sourceDoc, documentId, chunks,
                  chunkIndex, embedding, runs, faults, outcome, fetchLog, handed,
                  rowLog, runLog, prevRun >>

\* no call of chunkText is being followed
NoCall == [pc |-> "off"]

\* --------------------------------------------------------------- helpers

Get(f, k) == IF k \in DOMAIN f THEN f[k] ELSE Null

Put(f, k, v) == (k :> v) @@ f

ZeroStats == [documentsProcessed |-> 0, chunksCreated |-> 0,
              embeddingsWritten |-> 0, errors |-> 0]

NoRow == [head |-> "none", pos |-> 0, trace |-> << >>]

NoRunLog == [probeCalls |-> 0, embedCalls |-> 0, embedFailures |-> 0, hashReads |-> 0,
             docUpserts |-> 0, chunkUpserts |-> 0, failures |-> 0,
             visited |-> << >>, fetchFailed |-> << >>, sourceChanged |-> FALSE,
             stored |-> << >>]

NoPrevRun == [ran |-> FALSE]

tableName == validTables[tableIdx]

\* TABLE_MAPPERS[t].transformRow: the first non-empty content candidate
transformRow(t, r) ==
  [source_table |-> t,
   source_id |-> IF r.id # << >> THEN ToString(r.id[1]) ELSE "unknown",
   content |-> IF r.content # EmptyStr THEN r.content ELSE r.alt]

\* TABLE_MAPPERS[t].fetchRows: range(offset, offset + limit - 1)
fetchTableRows(t, limit, off) ==
  SubSeq(source[t], off + 1, IF off + limit < Len(source[t]) THEN off + limit
                              ELSE Len(source[t]))

\* validateTables: the requested names that have a mapper and are accessible
validateTables(names, accessible) ==
  LET Valid(n) == n \in MapperNames /\ n \in accessible
  IN  SelectSeq(names, Valid)

\* ragTables.getDocumentHash
getDocumentHash(t, sid) ==
  IF << t, sid >> \in DOMAIN docIndex THEN docIndex[<< t, sid >>].content_hash ELSE Null

\* ragTables.getChunk
getChunk(docId, i) == Get(chunkTable, << docId, i >>)

\* ragTables.upsertDocument: the store after the upsert; the document's id is
\* the row of its key (source_table, source_id)
upsertDocument(doc) ==
  Put(docIndex, << doc.source_table, doc.source_id >>,
      [content |-> doc.content, content_hash |-> doc.content_hash])

\* an upsert that numbers the chunks of a document from 1
upsertChunkOneBased(chunk) ==
  Put(chunkTable, << chunk.document_id, chunk.chunk_index + 1 >>,
      [content |-> chunk.content, embedding |-> chunk.embedding])

\* ragTables.upsertChunk: the store after the upsert
upsertChunk(chunk) ==
  Put(chunkTable, << chunk.document_id, chunk.chunk_index >>,
      [content |-> chunk.content, embedding |-> chunk.embedding])

\* printFinalStats: the errors totalled over the tables of the run
TotalErrors(st) ==
  LET f[S \in SUBSET DOMAIN st] ==
        IF S = {} THEN 0
        ELSE LET x == CHOOSE x \in S : TRUE IN st[x].errors + f[S \ {x}]
  IN  f[DOMAIN st]

Count(field) == [runLog EXCEPT ![field] = @ + 1]

Count2(f1, f2) == [runLog EXCEPT ![f1] = @ + 1, ![f2] = @ + 1]

Count3(f1, f2, f3) == [runLog EXCEPT ![f1] = @ + 1, ![f2] = @ + 1, ![f3] = @ + 1]

\* an external call fails
Fault == faults < MaxFaults /\ faults' = faults + 1

\* ---------------------------------------------------------------- the run

\* the indexer before its first run
InitIndexer ==
  /\ source \in SourceVersions
  /\ docIndex = << >>
  /\ chunkTable = << >>
  /\ options = [tables |-> << >>, limit |-> 1, offset |-> 0, reembed |-> "none"]
  /\ validTables = << >>
  /\ stats = << >>
  /\ pc = "idle"
  /\ tableIdx = 1
  /\ offset = 0
  /\ rows = << >>
  /\ rowIdx = 1
  /\ sourceDoc = Null
  /\ documentId = << >>
  /\ chunks = << >>
  /\ chunkIndex = 0
  /\ embedding = Null
  /\ runs = 0
  /\ faults = 0
  /\ outcome = "none"
  /\ fetchLog = << >>
  /\ handed = << >>
  /\ rowLog = NoRow
  /\ runLog = NoRunLog
  /\ prevRun = NoPrevRun

Init == InitIndexer /\ chunker = NoCall

\* the source rows change between two runs
ChangeSource ==
  /\ pc = "idle"
  /\ runs > 0
  /\ runs < MaxRuns
  /\ \E v \in SourceVersions \ {source} : source' = v
  /\ runLog' = [runLog EXCEPT !.sourceChanged = TRUE]
  /\ UNCHANGED << chunker, storeVars, runVars, stats, pc, tableIdx, offset, rows, rowIdx,
                  rowVars, faults, fetchLog, handed, rowLog >>

\* the CLI parses and validates its options (lines 252-286)
StartRun ==
  /\ pc = "idle"
  /\ runs < MaxRuns
  /\ \E tl \in TableLists, l \in Limits, o \in Offsets, m \in ReembedModes :
       /\ runs > 0 => tl = options.tables /\ l = options.limit /\ o = options.offset
       /\ options' = [tables |-> tl, limit |-> l, offset |-> o, reembed |-> m]
  /\ runs' = runs + 1
  /\ prevRun' = IF runs = 0 THEN NoPrevRun
                ELSE [ran |-> TRUE, reembed |-> options.reembed, validTables |-> validTables,
                      outcome |-> outcome, errors |-> TotalErrors(stats),
                      sourceChanged |-> runLog.sourceChanged]
  /\ stats' = << >>
  /\ validTables' = << >>
  /\ tableIdx' = 1
  /\ outcome' = "none"
  /\ runLog' = NoRunLog
  /\ rowLog' = NoRow
  /\ fetchLog' = << >>
  /\ handed' = << >>
  /\ offset' = 0
  /\ rows' = << >>
  /\ rowIdx' = 1
  /\ sourceDoc' = Null
  /\ documentId' = << >>
  /\ chunks' = << >>
  /\ chunkIndex' = 0
  /\ embedding' = Null
  /\ pc' = "probe"
  /\ UNCHANGED << chunker, source, storeVars, faults >>

\* the CLI tests the provider with embed('test') and constructs the indexer
\* (lines 289-308)
TestEmbed ==
  /\ pc = "probe"
  /\ runLog' = Count("probeCalls")
  /\ pc' = "validate"
  /\ UNCHANGED << chunker, source, storeVars, runVars, stats, tableIdx, offset, rows, rowIdx,
                  rowVars, faults, fetchLog, handed, rowLog >>

\* the test call fails: process.exit(1) (lines 293-297)
TestEmbedFail ==
  /\ pc = "probe"
  /\ Fault
  /\ runLog' = Count("probeCalls")
  /\ outcome' = "exit1"
  /\ pc' = "idle"
  /\ UNCHANGED << chunker, source, storeVars, options, validTables, runs, prevRun, stats,
                  tableIdx, offset, rows, rowIdx, rowVars, fetchLog, handed, rowLog >>

\* run(), lines 48-56: validation; a table that is not accessible is left out
Validate ==
  /\ pc = "validate"
  /\ \E accessible \in SUBSET MapperNames :
       /\ faults + Cardinality(MapperNames \ accessible) <= MaxFaults
       /\ faults' = faults + Cardinality(MapperNames \ accessible)
       /\ validTables' = validateTables(options.tables, accessible)
  /\ IF Len(validTables') = 0
     THEN pc' = "idle" /\ outcome' = "early"
     ELSE pc' = "table" /\ outcome' = outcome
  /\ UNCHANGED << chunker, source, storeVars, options, runs, prevRun, stats, tableIdx, offset,
                  rows, rowIdx, rowVars, fetchLog, handed, rowLog, runLog >>

\* processTable, lines 81-92
ProcessTable ==
  /\ pc = "table"
  /\ tableIdx <= Len(validTables)
  /\ stats' = Put(stats, tableName, ZeroStats)
  /\ offset' = options.offset
  /\ fetchLog' = << >>
  /\ handed' = << >>
  /\ rowLog' = NoRow
  /\ runLog' = [runLog EXCEPT !.visited = Append(@, tableName)]
  /\ pc' = "fetch"
  /\ UNCHANGED << chunker, source, storeVars, runVars, tableIdx, rows, rowIdx, rowVars,
                  faults >>

\* run(), line 74, and the completion handler (lines 309-312)
PrintFinalStats ==
  /\ pc = "table"
  /\ tableIdx > Len(validTables)
  /\ outcome' = "reported"
  /\ pc' = "idle"
  /\ UNCHANGED << chunker, source, storeVars, options, validTables, runs, prevRun, stats,
                  tableIdx, offset, rows, rowIdx, rowVars, faults, fetchLog, handed,
                  rowLog, runLog >>

Fetched(got) == Append(fetchLog, [offset |-> offset, limit |-> options.limit,
                                  got |-> got])

\* processTable, lines 96-103: a page with rows
FetchPage ==
  /\ pc = "fetch"
  /\ LET page == fetchTableRows(tableName, options.limit, offset)
     IN  /\ Len(page) > 0
         /\ rows' = page
         /\ fetchLog' = Fetched(Len(page))
  /\ rowIdx' = 1
  /\ pc' = "row"
  /\ UNCHANGED << chunker, source, storeVars, runVars, stats, tableIdx, offset, rowVars,
                  faults, handed, rowLog, runLog >>

\* processTable, lines 96-101 and 123: an empty page ends the table
FetchEmpty ==
  /\ pc = "fetch"
  /\ Len(fetchTableRows(tableName, options.limit, offset)) = 0
  /\ rows' = << >>
  /\ fetchLog' = Fetched(0)
  /\ tableIdx' = tableIdx + 1
  /\ pc' = "table"
  /\ UNCHANGED << chunker, source, storeVars, runVars, stats, offset, rowIdx, rowVars, faults,
                  handed, rowLog, runLog >>

\* a fetch failure that is not caught by processTable and ends the run
FetchFailAborts ==
  /\ pc = "fetch"
  /\ Fault
  /\ fetchLog' = Fetched(-1)
  /\ runLog' = [runLog EXCEPT !.failures = @ + 1,
                              !.fetchFailed = Append(@, tableName)]
  /\ outcome' = "failed"
  /\ pc' = "idle"
  /\ UNCHANGED << chunker, source, storeVars, options, validTables, runs, prevRun, stats,
                  tableIdx, offset, rows, rowIdx, rowVars, handed, rowLog >>

\* processTable, lines 96 and 125-128: the fetch throws
FetchFail ==
  /\ pc = "fetch"
  /\ Fault
  /\ fetchLog' = Fetched(-1)
  /\ stats' = [stats EXCEPT ![tableName].errors = @ + 1]
  /\ runLog' = [runLog EXCEPT !.failures = @ + 1,
                              !.fetchFailed = Append(@, tableName)]
  /\ tableIdx' = tableIdx + 1
  /\ pc' = "table"
  /\ UNCHANGED << chunker, source, storeVars, runVars, offset, rows, rowIdx, rowVars, handed,
                  rowLog >>

\* a page end that advances the offset by one row
PageEndOffByOne ==
  /\ pc = "row"
  /\ rowIdx > Len(rows)
  /\ offset' = offset + 1
  /\ IF Len(rows) < options.limit
     THEN tableIdx' = tableIdx + 1 /\ pc' = "table"
     ELSE tableIdx' = tableIdx /\ pc' = "fetch"
  /\ UNCHANGED << chunker, source, storeVars, runVars, stats, rows, rowIdx, rowVars, faults,
                  fetchLog, handed, rowLog, runLog >>

\* processTable, lines 115-120: the page is done
PageEnd ==
  /\ pc = "row"
  /\ rowIdx > Len(rows)
  /\ offset' = offset + Len(rows)
  /\ IF Len(rows) < options.limit
     THEN tableIdx' = tableIdx + 1 /\ pc' = "table"
     ELSE tableIdx' = tableIdx /\ pc' = "fetch"
  /\ UNCHANGED << chunker, source, storeVars, runVars, stats, rows, rowIdx, rowVars, faults,
                  fetchLog, handed, rowLog, runLog >>

\* ------------------------------------------------------------- processRow

row == rows[rowIdx]

AtRow == pc = "row" /\ rowIdx <= Len(rows)

Handed == handed' = Append(handed, offset + rowIdx)

NewRowLog(head) == [head |-> head, pos |-> offset + rowIdx, trace |-> << >>]

Doc == transformRow(tableName, row)

\* an emptiness test that does not trim
IsBlankNoTrim(text) == text = EmptyStr

\* line 138: !content || content.trim().length === 0
IsBlank(text) == text = EmptyStr \/ Trim(text) = EmptyStr

\* a processRow without the unchanged-document skip
IsUnchangedNever(existingHash, contentHash, reembed) == FALSE

\* lines 148-151: whether the row is skipped as unchanged
IsUnchanged(existingHash, contentHash, reembed) ==
  existingHash = contentHash /\ reembed = "none"

Unchanged ==
  IsUnchanged(getDocumentHash(Doc.source_table, Doc.source_id),
              generateContentHash(Doc.content), options.reembed)

\* existingChunk?.embedding is truthy
HasEmbedding(existing) ==
  IF existing = Null THEN FALSE ELSE existing.embedding # Null

\* a condition that regenerates in mode 'none' only when no chunk row exists
NeedsEmbeddingNoChunk(reembed, existing) ==
  IF reembed = "all" THEN TRUE
  ELSE IF reembed = "missing" THEN TRUE
  ELSE existing = Null

\* a condition under which mode 'all' reuses a stored embedding
NeedsEmbeddingAllReuses(reembed, existing) ==
  IF reembed = "missing" THEN TRUE
  ELSE ~HasEmbedding(existing)

\* lines 174-176: whether the embedding is (re)generated
NeedsEmbedding(reembed, existing) ==
  IF reembed = "all" THEN TRUE
  ELSE IF reembed = "missing" THEN TRUE
  ELSE ~HasEmbedding(existing)

\* a catch that goes on with the next row without counting the error
RowFailedUncounted(newLog) ==
  /\ stats' = stats
  /\ rowLog' = newLog
  /\ rowIdx' = rowIdx + 1
  /\ pc' = "row"

\* a row loop without catch: the failure of a row ends the run
RowFailedRethrows(newLog) ==
  /\ stats' = stats
  /\ rowLog' = newLog
  /\ rowIdx' = rowIdx
  /\ pc' = "idle"

\* the catch of processTable's row loop (lines 109-112): the error is counted
\* and the loop goes on with the next row
RowFailed(newLog) ==
  /\ stats' = [stats EXCEPT ![tableName].errors = @ + 1]
  /\ rowLog' = newLog
  /\ rowIdx' = rowIdx + 1
  /\ pc' = "row"

\* lines 135-138 throw: the content column holds no string, so trim() fails
RowTransformFail ==
  /\ AtRow
  /\ row.typ # "string"
  /\ Handed
  /\ RowFailed(NewRowLog("transformFail"))
  /\ runLog' = Count("failures")
  /\ UNCHANGED << chunker, source, storeVars, runVars, tableIdx, offset, rows, rowVars, faults,
                  fetchLog >>

\* lines 137-140: no content
RowSkipEmpty ==
  /\ AtRow
  /\ row.typ = "string"
  /\ IsBlank(Doc.content)
  /\ Handed
  /\ rowLog' = NewRowLog("empty")
  /\ sourceDoc' = Doc
  /\ rowIdx' = rowIdx + 1
  /\ UNCHANGED << chunker, source, storeVars, runVars, stats, pc, tableIdx, offset, rows,
                  documentId, chunks, chunkIndex, embedding, faults, fetchLog,
                  runLog >>

\* line 146 throws
RowHashFail ==
  /\ AtRow
  /\ row.typ = "string"
  /\ ~IsBlank(Doc.content)
  /\ Fault
  /\ Handed
  /\ RowFailed(NewRowLog("hashFail"))
  /\ runLog' = Count2("hashReads", "failures")
  /\ sourceDoc' = Doc
  /\ UNCHANGED << chunker, source, storeVars, runVars, tableIdx, offset, rows, documentId,
                  chunks, chunkIndex, embedding, fetchLog >>

\* lines 143-151: the document is unchanged
RowSkipUnchanged ==
  /\ AtRow
  /\ row.typ = "string"
  /\ ~IsBlank(Doc.content)
  /\ Unchanged
  /\ Handed
  /\ rowLog' = NewRowLog("unchanged")
  /\ runLog' = Count("hashReads")
  /\ sourceDoc' = Doc
  /\ rowIdx' = rowIdx + 1
  /\ UNCHANGED << chunker, source, storeVars, runVars, stats, pc, tableIdx, offset, rows,
                  documentId, chunks, chunkIndex, embedding, faults, fetchLog >>

\* line 154 throws
RowDocFail ==
  /\ AtRow
  /\ row.typ = "string"
  /\ ~IsBlank(Doc.content)
  /\ ~Unchanged
  /\ Fault
  /\ Handed
  /\ RowFailed(NewRowLog("docFail"))
  /\ runLog' = Count3("hashReads", "docUpserts", "failures")
  /\ sourceDoc' = Doc
  /\ UNCHANGED << chunker, source, storeVars, runVars, tableIdx, offset, rows, documentId,
                  chunks, chunkIndex, embedding, fetchLog >>

\* lines 153-165: the document is upserted and chunked
RowDocOk ==
  /\ AtRow
  /\ row.typ = "string"
  /\ ~IsBlank(Doc.content)
  /\ ~Unchanged
  /\ Handed
  /\ docIndex' = upsertDocument([source_table |-> Doc.source_table,
                                 source_id |-> Doc.source_id,
                                 content |-> Doc.content,
                                 content_hash |-> generateContentHash(Doc.content)])
  /\ documentId' = << Doc.source_table, Doc.source_id >>
  /\ stats' = [stats EXCEPT ![tableName].documentsProcessed = @ + 1]
  /\ runLog' = Count2("hashReads", "docUpserts")
  /\ sourceDoc' = Doc
  /\ chunks' = chunksOf(Doc.content)
  /\ chunkIndex' = 0
  /\ embedding' = Null
  /\ IF Len(chunks') = 0
     THEN pc' = "row" /\ rowIdx' = rowIdx + 1 /\ rowLog' = NewRowLog("done")
     ELSE pc' = "chunk" /\ rowIdx' = rowIdx /\ rowLog' = NewRowLog("chunking")
  /\ UNCHANGED << chunker, source, chunkTable, runVars, tableIdx, offset, rows, faults,
                  fetchLog >>

existingChunk == getChunk(documentId, chunkIndex)

chunkContent == chunks[chunkIndex + 1]

Traced(called, failed, emb) ==
  [rowLog EXCEPT !.trace = Append(@, [index |-> chunkIndex, existing |-> existingChunk,
                                      called |-> called, failed |-> failed,
                                      embedding |-> emb, written |-> FALSE])]

\* line 169 throws
ChunkReadFail ==
  /\ pc = "chunk"
  /\ Fault
  /\ RowFailed([rowLog EXCEPT !.head = "chunkReadFail"])
  /\ runLog' = Count("failures")
  /\ UNCHANGED << chunker, source, storeVars, runVars, tableIdx, offset, rows, rowVars,
                  fetchLog, handed >>

\* lines 174-180: the embedding is generated
ChunkEmbed ==
  /\ pc = "chunk"
  /\ NeedsEmbedding(options.reembed, existingChunk)
  /\ embedding' = EmbeddingOf(chunkContent)
  /\ stats' = [stats EXCEPT ![tableName].embeddingsWritten = @ + 1]
  /\ runLog' = Count("embedCalls")
  /\ rowLog' = Traced(TRUE, FALSE, embedding')
  /\ pc' = "upsert"
  /\ UNCHANGED << chunker, source, storeVars, runVars, tableIdx, offset, rows, rowIdx,
                  sourceDoc, documentId, chunks, chunkIndex, faults, fetchLog,
                  handed >>

\* an embed failure that is not caught at the chunk and ends the row
ChunkEmbedFailAborts ==
  /\ pc = "chunk"
  /\ NeedsEmbedding(options.reembed, existingChunk)
  /\ Fault
  /\ RowFailed([Traced(TRUE, TRUE, Null) EXCEPT !.head = "embedFail"])
  /\ runLog' = Count3("embedCalls", "embedFailures", "failures")
  /\ UNCHANGED << chunker, source, storeVars, runVars, tableIdx, offset, rows, rowVars,
                  fetchLog, handed >>

\* lines 174-184: embed throws; the chunk goes on without an embedding
ChunkEmbedFail ==
  /\ pc = "chunk"
  /\ NeedsEmbedding(options.reembed, existingChunk)
  /\ Fault
  /\ embedding' = Null
  /\ runLog' = Count2("embedCalls", "embedFailures")
  /\ rowLog' = Traced(TRUE, TRUE, Null)
  /\ pc' = "upsert"
  /\ UNCHANGED << chunker, source, storeVars, runVars, stats, tableIdx, offset, rows, rowIdx,
                  sourceDoc, documentId, chunks, chunkIndex, fetchLog, handed >>

\* lines 185-188: the stored embedding is used
ChunkReuse ==
  /\ pc = "chunk"
  /\ ~NeedsEmbedding(options.reembed, existingChunk)
  /\ embedding' = existingChunk.embedding
  /\ rowLog' = Traced(FALSE, FALSE, embedding')
  /\ pc' = "upsert"
  /\ UNCHANGED << chunker, source, storeVars, runVars, stats, tableIdx, offset, rows, rowIdx,
                  sourceDoc, documentId, chunks, chunkIndex, faults, fetchLog,
                  handed, runLog >>

\* lines 190-199: the chunk is upserted; after the last chunk processRow returns
UpsertChunk ==
  /\ pc = "upsert"
  /\ chunkTable' = upsertChunk([document_id |-> documentId, chunk_index |-> chunkIndex,
                                content |-> chunkContent, embedding |-> embedding])
  /\ stats' = [stats EXCEPT ![tableName].chunksCreated = @ + 1]
  /\ runLog' = [Count("chunkUpserts") EXCEPT
                  !.stored = IF rowLog.trace[Len(rowLog.trace)].called
                                /\ ~rowLog.trace[Len(rowLog.trace)].failed
                             THEN Append(@, tableName) ELSE @]
  /\ chunkIndex' = chunkIndex + 1
  /\ IF chunkIndex' < Len(chunks)
     THEN /\ pc' = "chunk"
          /\ rowIdx' = rowIdx
          /\ rowLog' = [rowLog EXCEPT !.trace[Len(rowLog.trace)].written = TRUE]
     ELSE /\ pc' = "row"
          /\ rowIdx' = rowIdx + 1
          /\ rowLog' = [rowLog EXCEPT !.trace[Len(rowLog.trace)].written = TRUE,
                                      !.head = "done"]
  /\ UNCHANGED << chunker, source, docIndex, runVars, tableIdx, offset, rows, sourceDoc,
                  documentId, chunks, embedding, faults, fetchLog, handed >>

\* line 191 throws
UpsertChunkFail ==
  /\ pc = "upsert"
  /\ Fault
  /\ RowFailed([rowLog EXCEPT !.head = "chunkWriteFail"])
  /\ runLog' = Count2("chunkUpserts", "failures")
  /\ UNCHANGED << chunker, source, storeVars, runVars, tableIdx, offset, rows, rowVars,
                  fetchLog, handed >>

Next ==
  \/ ChangeSource
  \/ StartRun
  \/ TestEmbed
  \/ TestEmbedFail
  \/ Validate
  \/ ProcessTable
  \/ PrintFinalStats
  \/ FetchPage
  \/ FetchEmpty
  \/ FetchFail
  \/ PageEnd
  \/ RowTransformFail
  \/ RowSkipEmpty
  \/ RowHashFail
  \/ RowSkipUnchanged
  \/ RowDocFail
  \/ RowDocOk
  \/ ChunkReadFail
  \/ ChunkEmbed
  \/ ChunkEmbedFail
  \/ ChunkReuse
  \/ UpsertChunk
  \/ UpsertChunkFail

Spec == Init /\ [][Next]_vars

\* the steps of a run that has been started: the script runs them one after
\* the other, and every call it awaits returns or throws
RunStep ==
  \/ TestEmbed
  \/ TestEmbedFail
  \/ Validate
  \/ ProcessTable
  \/ PrintFinalStats
  \/ FetchPage
  \/ FetchEmpty
  \/ FetchFail
  \/ PageEnd
  \/ RowTransformFail
  \/ RowSkipEmpty
  \/ RowHashFail
  \/ RowSkipUnchanged
  \/ RowDocFail
  \/ RowDocOk
  \/ ChunkReadFail
  \/ ChunkEmbed
  \/ ChunkEmbedFail
  \/ ChunkReuse
  \/ UpsertChunk
  \/ UpsertChunkFail

\* a started run is not suspended for ever
FairSpec == Spec /\ WF_vars(RunStep)

\* ------------------------------------------------- one call of chunkText

\* sentences in a generated text
MaxSentences == 3

\* a sentence of two words, n characters long
SentenceOf(id, n) ==
  IF n < 3 THEN << W(id, n, TRUE) >>
  ELSE JoinSp(<< W(id, (n - 1) \div 2, FALSE) >>,
              << W(id + 1, n - 1 - ((n - 1) \div 2), TRUE) >>)

\* the text of sentences of the lengths ls, joined by single spaces
TextOfSentences(ls) ==
  LET f[i \in 1..Len(ls)] ==
        IF i = 1 THEN SentenceOf(10, ls[1])
        ELSE JoinSp(f[i-1], SentenceOf(10 * i, ls[i]))
  IN  f[Len(ls)]

\* a text of words of the lengths ls without any of . ! ?
TextOfWords(ls) ==
  LET f[i \in 1..Len(ls)] ==
        IF i = 1 THEN << W(1, ls[1], FALSE) >>
        ELSE JoinSp(f[i-1], << W(i, ls[i], FALSE) >>)
  IN  f[Len(ls)]

SentenceLengths == {300, 700, 900, 1600}

GeneratedTexts ==
  UNION { { TextOfSentences(ls) : ls \in [1..k -> SentenceLengths] } : k \in 1..MaxSentences }

\* texts of exactly three sentences, 2000 characters in all
ThreeSentenceLengths == {100, 199, 200, 598, 700, 799, 800, 900, 1000, 1198, 1600}

ThreeSentenceTexts ==
  { TextOfSentences(<< ab[1], ab[2], 1998 - ab[1] - ab[2] >>) :
      ab \in { x \in ThreeSentenceLengths \X ThreeSentenceLengths : 1998 - x[1] - x[2] > 0 } }

\* texts of 3000 characters without sentence end: 6 words, and 10 words
UnpunctuatedTexts ==
  { TextOfWords([i \in 1..6 |-> IF i = 6 THEN 500 ELSE 499]),
    TextOfWords([i \in 1..10 |-> IF i = 10 THEN 300 ELSE 299]) }

\* texts with leading, trailing, repeated or only whitespace
WhitespaceTexts ==
  { EmptyStr,
    << WS(3) >>,
    << WS(2000) >>,
    << WS(2), W(1, 5, TRUE), WS(2), W(2, 5, FALSE), WS(1) >>,
    << WS(1), W(1, 400, FALSE), WS(2), W(2, 500, TRUE), WS(3), W(3, 450, FALSE), WS(1),
       W(4, 450, TRUE), WS(2) >>,
    << W(1, 1200, TRUE) >>,
    << W(1, 1200, TRUE), WS(1) >> }

Texts == GeneratedTexts \cup ThreeSentenceTexts \cup UnpunctuatedTexts \cup WhitespaceTexts

Params(t, o, mn, mx) == [targetSize |-> t, overlap |-> o, minSize |-> mn, maxSize |-> mx]

\* the defaults of chunkText, which are the values processRow passes; the
\* same without overlap and with a small overlap; other sizes; and a choice
\* with minSize > maxSize
ParamChoices ==
  { Params(1200, 200, 800, 1500), Params(1200, 0, 800, 1500), Params(1200, 2, 800, 1500),
    Params(1000, 3, 1000, 1000), Params(500, 1, 300, 2000), Params(1200, 1, 1, 1500),
    Params(1200, 1, 1600, 1500) }

\* the state of a call: its arguments, the locals of chunkText, the result,
\* and (history) what the last iteration of the sentence loop did
Call(text, p) ==
  [pc |-> "call", text |-> text, p |-> p, sentences |-> << >>, i |-> 1,
   st |-> [chunks |-> << >>, previousChunk |-> << >>, currentChunk |-> << >>],
   pre |-> << >>, withOverlap |-> << >>, out |-> << >>,
   last |-> [buffer |-> << >>, sentence |-> << >>, pushed |-> << >>]]

ChunkInit ==
  /\ InitIndexer
  /\ source = SourceV1
  /\ \E text \in Texts, p \in ParamChoices : chunker = Call(text, p)

\* lines 65-67: the text fits the target and is returned whole
CallReturnWhole ==
  /\ chunker.pc = "call"
  /\ FitsTarget(chunker.text, chunker.p.targetSize)
  /\ chunker' = [chunker EXCEPT !.out = << chunker.text >>, !.pc = "done"]
  /\ UNCHANGED indexerVars

\* lines 69-73: the text is split into sentences
CallSplit ==
  /\ chunker.pc = "call"
  /\ ~FitsTarget(chunker.text, chunker.p.targetSize)
  /\ chunker' = [chunker EXCEPT !.sentences = splitIntoSentences(chunker.text),
                                !.pc = "loop"]
  /\ UNCHANGED indexerVars

\* lines 75-122: one iteration of the sentence loop
CallSentence ==
  /\ chunker.pc = "loop"
  /\ chunker.i <= Len(chunker.sentences)
  /\ LET sentence == chunker.sentences[chunker.i]
         next == SentenceStep(chunker.st, sentence, chunker.p.targetSize,
                              chunker.p.minSize, chunker.p.maxSize)
     IN  chunker' = [chunker EXCEPT
           !.st = next,
           !.i = @ + 1,
           !.last = [buffer |-> chunker.st.currentChunk, sentence |-> sentence,
                     pushed |-> SubSeq(next.chunks, Len(chunker.st.chunks) + 1,
                                       Len(next.chunks))]]
  /\ UNCHANGED indexerVars

\* lines 124-133: the last buffer
CallFlush ==
  /\ chunker.pc = "loop"
  /\ chunker.i > Len(chunker.sentences)
  /\ chunker' = [chunker EXCEPT !.pre = FlushLast(chunker.st, chunker.p.minSize),
                                !.pc = "overlap"]
  /\ UNCHANGED indexerVars

\* lines 135-148: the overlap pass
CallOverlap ==
  /\ chunker.pc = "overlap"
  /\ chunker' = [chunker EXCEPT !.withOverlap = AddOverlap(chunker.pre, chunker.p.overlap),
                                !.pc = "merge"]
  /\ UNCHANGED indexerVars

\* lines 150-151: the final merge
CallMerge ==
  /\ chunker.pc = "merge"
  /\ chunker' = [chunker EXCEPT
                   !.out = mergeSmallChunks(chunker.withOverlap, chunker.p.minSize),
                   !.pc = "done"]
  /\ UNCHANGED indexerVars

ChunkNext ==
  \/ CallReturnWhole
  \/ CallSplit
  \/ CallSentence
  \/ CallFlush
  \/ CallOverlap
  \/ CallMerge

ChunkSpec == ChunkInit /\ [][ChunkNext]_vars

\* the call followed statement by statement returns what chunkText returns
CallAgrees ==
  chunker.pc = "done" =>
    chunker.out = chunkText(chunker.text, chunker.p.targetSize, chunker.p.overlap,
                            chunker.p.minSize, chunker.p.maxSize)

\* ------------------------------------------------------------------ claims

\* the rows of collection t map to pairwise different source ids
DistinctSourceIds(t) ==
  \A i, j \in 1..Len(source[t]) :
    i # j => transformRow(t, source[t][i]).source_id # transformRow(t, source[t][j]).source_id

\* the current run is a run in mode 'none' that follows a completed run in
\* mode 'none' over the same collections, the source unchanged in between
\* (and not changed since the current run ended)
SecondRunOfNone ==
  /\ prevRun.ran
  /\ prevRun.reembed = "none"
  /\ options.reembed = "none"
  /\ ~prevRun.sourceChanged
  /\ ~runLog.sourceChanged
  /\ prevRun.outcome = "reported"
  /\ prevRun.validTables = validTables

NoWork == runLog.embedCalls = 0 /\ runLog.docUpserts = 0 /\ runLog.chunkUpserts = 0

StoredVector(e) == IF e.existing = Null THEN Null ELSE e.existing.embedding

Trace == rowLog.trace

\* C2 as stated: in mode 'missing' the provider is called for a chunk position
\* only when no embedding is stored there, and a stored embedding is carried
\* forward into the upsert without a call.
C2_MissingCallsOnlyWhenAbsent ==
  options.reembed = "missing" =>
    \A i \in 1..Len(Trace) :
      /\ Trace[i].called => StoredVector(Trace[i]) = Null
      /\ StoredVector(Trace[i]) # Null =>
           ~Trace[i].called /\ Trace[i].embedding = StoredVector(Trace[i])

RowChunks == chunkText(sourceDoc.content, ChunkTarget, ChunkOverlap, ChunkMin, ChunkMax)

\* processRow has returned or thrown for a row with non-empty content
RowEnded ==
  rowLog.head \in {"unchanged", "hashFail", "docFail", "chunkReadFail",
                   "chunkWriteFail", "embedFail", "done"}

\* one provider call for each chunk of the row, in index order
CalledOncePerChunk ==
  /\ Len(Trace) = Len(RowChunks)
  /\ \A i \in 1..Len(Trace) : Trace[i].index = i - 1 /\ Trace[i].called

\* C4 as stated: in mode 'all' processing a row with non-empty content calls
\* the provider exactly once for each chunk produced from its content.
C4_AllCallsOncePerChunk ==
  options.reembed = "all" /\ RowEnded => CalledOncePerChunk

\* C4, amended: in mode 'all' the provider is called for every chunk position
\* the row reaches, whatever is stored there, and exactly once for each chunk
\* produced from the row's content when no store operation fails during the
\* row.
C4_AllCallsOncePerChunkUnlessStoreFails ==
  options.reembed = "all" =>
    /\ \A i \in 1..Len(Trace) : Trace[i].index = i - 1 /\ Trace[i].called
    /\ rowLog.head = "done" => CalledOncePerChunk

\* a row of two chunks, both already stored with embeddings, processed to the
\* end in mode 'all'
C4_Witness ==
  /\ options.reembed = "all"
  /\ rowLog.head = "done"
  /\ Len(Trace) = 2
  /\ \A i \in 1..Len(Trace) : StoredVector(Trace[i]) # Null /\ Trace[i].called

\* C5: when an embedding call fails for a chunk of a row and no store
\* operation fails, the row is not aborted: its chunks are upserted one by one
\* in index order, all n of them by the time the row ends, and the chunk whose
\* call failed is upserted with embedding = null.
C5_EmbedFailureKeepsRow ==
  ( /\ \E i \in 1..Len(Trace) : Trace[i].failed
    /\ rowLog.head \notin {"chunkReadFail", "chunkWriteFail"} )
  => /\ rowLog.head \in {"chunking", "done"}
     /\ \A i \in 1..Len(Trace) :
          /\ Trace[i].index = i - 1
          /\ i < Len(Trace) => Trace[i].written
          /\ Trace[i].failed => Trace[i].embedding = Null
          /\ Trace[i].written =>
               /\ << documentId, i - 1 >> \in DOMAIN chunkTable
               /\ chunkTable[<< documentId, i - 1 >>].embedding = Trace[i].embedding
               /\ chunkTable[<< documentId, i - 1 >>].content = chunks[i]
     /\ rowLog.head = "done" =>
          Len(Trace) = Len(RowChunks) /\ Trace[Len(Trace)].written

\* a row of two chunks ended with both chunks stored, the first without
\* embedding because its call failed, the second with one
C5_Witness ==
  /\ rowLog.head = "done"
  /\ Len(Trace) = 2
  /\ Trace[1].failed /\ ~Trace[2].failed
  /\ chunkTable[<< documentId, 0 >>].embedding = Null
  /\ chunkTable[<< documentId, 1 >>].embedding = EmbeddingOf(chunks[2])

\* C6 as stated: every embedding failure adds one to the collection's error
\* counter, so the errors counted over a run are its caught row and fetch
\* failures plus its embedding failures.
C6_EmbedFailureCounted ==
  TotalErrors(stats) = runLog.failures + runLog.embedFailures

\* the positions handed to processRow so far in the current collection are
\* the consecutive positions from the start offset up to the current row
HandedUpTo(n) ==
  /\ Len(handed) = (IF n > options.offset THEN n - options.offset ELSE 0)
  /\ \A i \in 1..Len(handed) : handed[i] = options.offset + i

HandedEveryRowSoFar ==
  /\ pc = "fetch" => HandedUpTo(offset)
  /\ pc = "row" => HandedUpTo(offset + rowIdx - 1)
  /\ pc \in {"chunk", "upsert"} => HandedUpTo(offset + rowIdx)

\* a failure is raised while a row is processed
RowFailureStep ==
  pc \in {"row", "chunk", "upsert"} /\ runLog'.failures = runLog.failures + 1

\* C7: a failure raised while processing a row adds exactly one to the
\* collection's error counter and the row loop goes on with the next row of
\* the page, so that every row of every fetched page is handed to processRow;
\* at the end of a page the offset advances by the page's length.
C7_RowFailureIsolated ==
  /\ [](HandedEveryRowSoFar)
  /\ [][RowFailureStep =>
          /\ stats' = [stats EXCEPT ![tableName].errors = @ + 1]
          /\ pc' = "row"
          /\ rowIdx' = rowIdx + 1
          /\ << rows', offset', tableIdx' >> = << rows, offset, tableIdx >>]_vars
  /\ [][pc = "row" /\ pc' \in {"fetch", "table"} =>
          rowIdx > Len(rows) /\ offset' = offset + Len(rows)]_vars

\* the first row of a collection failed and the third row, on a later page,
\* was processed to the end
C7_Witness ==
  /\ pc = "row"
  /\ runLog.failures = 1
  /\ runLog.fetchFailed = << >>
  /\ stats[tableName].errors = 1
  /\ stats[tableName].documentsProcessed = 1
  /\ Len(fetchLog) > 1
  /\ handed = << 1, 2, 3 >>
  /\ rowLog.head = "done"

\* the fetch of a page throws
FetchFailureStep == pc = "fetch" /\ runLog'.failures = runLog.failures + 1

\* C8: when the fetch of a page fails, one error is counted for the
\* collection, no further page of it is fetched, the run goes on with the next
\* validated collection, and a run that ends has visited every validated
\* collection and printed the final report.
C8_FetchFailureEndsCollectionOnly ==
  /\ [][FetchFailureStep =>
          /\ stats' = [stats EXCEPT ![tableName].errors = @ + 1]
          /\ pc' = "table"
          /\ tableIdx' = tableIdx + 1
          /\ << docIndex', chunkTable', validTables' >> = << docIndex, chunkTable, validTables >>]_vars
  /\ [](\A i \in 1..Len(fetchLog) : fetchLog[i].got < 0 => i = Len(fetchLog))
  /\ [](pc = "idle" /\ runs > 0 =>
          /\ outcome \in {"exit1", "early", "reported"}
          /\ outcome = "reported" <=> Len(validTables) > 0
          /\ outcome = "reported" => runLog.visited = validTables)

\* the fetch of the first of two collections failed, the second collection
\* was indexed and the report printed
C8_Witness ==
  /\ outcome = "reported"
  /\ Len(validTables) = 2
  /\ runLog.fetchFailed = << validTables[1] >>
  /\ stats[validTables[1]].errors = 1
  /\ stats[validTables[2]].documentsProcessed > 0

\* a text of whitespace only, or no text at all
OnlyWhitespace(text) == \A i \in 1..Len(text) : text[i].k = "s"

\* processRow is entered for a row whose canonical content is blank
BlankRowStep ==
  /\ pc = "row"
  /\ rowIdx <= Len(rows)
  /\ Len(handed') = Len(handed) + 1
  /\ rows[rowIdx].typ = "string"
  /\ OnlyWhitespace(transformRow(tableName, rows[rowIdx]).content)

\* C9: a row whose canonical content is empty or whitespace-only is skipped
\* with no effect: no fingerprint read, no document or chunk upsert, no
\* embedding call, no change of any statistics counter, and the loop goes on
\* with the next row.
C9_BlankRowSkipped ==
  [][BlankRowStep =>
       /\ << docIndex', chunkTable', stats', runLog', faults' >>
            = << docIndex, chunkTable, stats, runLog, faults >>
       /\ pc' = "row"
       /\ rowIdx' = rowIdx + 1]_vars

\* a whitespace-only row was skipped after a document had been indexed
C9_Witness ==
  /\ rowLog.head = "empty"
  /\ sourceDoc.content = TextBlank
  /\ stats[tableName].documentsProcessed = 1
  /\ runLog.hashReads = 1

\* pages are fetched with the page size, from the start offset, at strictly
\* increasing offsets, and only a full page is followed by another fetch
FetchDiscipline ==
  /\ \A i \in 1..Len(fetchLog) : fetchLog[i].limit = options.limit
  /\ Len(fetchLog) > 0 => fetchLog[1].offset = options.offset
  /\ \A i \in 1..(Len(fetchLog) - 1) :
       /\ fetchLog[i + 1].offset > fetchLog[i].offset
       /\ fetchLog[i].got = options.limit

\* processTable has returned for the collection visited last
TableEnded == pc = "table" /\ Len(runLog.visited) = tableIdx - 1 /\ tableIdx > 1

LastVisited == runLog.visited[Len(runLog.visited)]

\* C10 as stated: the fetch discipline holds, and when a collection ends
\* every row at a position >= the start offset has been handed to processRow
\* exactly once, in position order.
C10_EveryRowHanded ==
  /\ FetchDiscipline
  /\ TableEnded => HandedUpTo(Len(source[LastVisited]))

\* C10, amended: the fetch discipline holds; the rows handed to processRow
\* are those of consecutive positions from the start offset, each once and in
\* order; and when no page fetch of the collection fails, these are all the
\* rows at positions >= the start offset.
C10_EveryRowHandedUnlessFetchFails ==
  /\ FetchDiscipline
  /\ \A i \in 1..Len(handed) : handed[i] = options.offset + i
  /\ ( /\ TableEnded
       /\ \A i \in 1..Len(fetchLog) : fetchLog[i].got >= 0 )
     => HandedUpTo(Len(source[LastVisited]))

\* a collection of three rows read from offset 1 in pages of one row: three
\* fetches, the last one empty, rows 2 and 3 handed
C10_Witness ==
  /\ TableEnded
  /\ options.offset = 1
  /\ Len(fetchLog) = 3
  /\ fetchLog[3].got = 0
  /\ handed = << 2, 3 >>

\* the chunk_index values stored for document d
IndexesOf(d) == { k[2] : k \in { x \in DOMAIN chunkTable : x[1] = d } }

StoredDocumentIds == { k[1] : k \in DOMAIN chunkTable }

\* C11: in every reachable store state the chunk_index values stored for a
\* document are {0..k-1} for some k, whatever embedding or store failures
\* occurred.
C11_ChunkIndexesContiguous ==
  \A d \in StoredDocumentIds : IndexesOf(d) = 0..(Cardinality(IndexesOf(d)) - 1)

\* the upsert of the second chunk of a document failed while chunks 0 and 1
\* of the document are stored from an earlier run
C11_Witness ==
  /\ rowLog.head = "chunkWriteFail"
  /\ Len(rowLog.trace) = 2
  /\ IndexesOf(documentId) = {0, 1}

\* the run is past validation, in processTable or between two collections
PastValidation == pc \in {"table", "fetch", "row", "chunk", "upsert"}

Reporting == pc = "idle" /\ outcome = "reported"

\* C12: a run that has passed validation with at least one valid collection
\* ends in Reporting, whatever failures occur, having visited the valid
\* collections in their order; a run without valid collection ends early,
\* without error and without visiting, reading or writing anything.
C12_RunEndsReporting ==
  /\ PastValidation ~> Reporting
  /\ [](PastValidation => Len(validTables) > 0)
  /\ [](Reporting => runLog.visited = validTables)
  /\ [](pc = "idle" /\ outcome = "early" =>
          /\ validTables = << >>
          /\ runLog.visited = << >>
          /\ stats = << >>
          /\ fetchLog = << >>
          /\ runLog.failures = 0
          /\ runLog.hashReads = 0
          /\ NoWork)

\* a run over two collections ended in Reporting after the failure of a row
C12_Witness ==
  /\ Reporting
  /\ runLog.visited = validTables
  /\ Len(validTables) = 2
  /\ runLog.failures = 1
  /\ runLog.fetchFailed = << >>


Done == chunker.pc = "done"

\* C13: a text no longer than targetSize (the empty text included) comes back
\* as exactly one chunk, equal to the text: not trimmed, not split
C13_ShortTextReturnedWhole ==
  Done /\ StrLen(chunker.text) <= chunker.p.targetSize => chunker.out = << chunker.text >>

\* two short sentences with whitespace around them came back as one chunk
C13_Witness ==
  /\ Done
  /\ chunker.text = << WS(2), W(1, 5, TRUE), WS(2), W(2, 5, FALSE), WS(1) >>
  /\ Trim(chunker.text) # chunker.text
  /\ Len(splitIntoSentences(chunker.text)) = 2
  /\ chunker.out = << chunker.text >>

\* the parameter choices with 0 < minSize <= targetSize <= maxSize
OrderedSizes(p) == 0 < p.minSize /\ p.minSize <= p.targetSize /\ p.targetSize <= p.maxSize

\* the text t with prefix + ' ' + t = chunk (the empty text when the chunk
\* does not begin with the prefix and a space)
StripPrefix(prefix, chunk) ==
  LET head == Cat(prefix, SP)
  IN  IF Len(chunk) > Len(head) /\ SubSeq(chunk, 1, Len(head)) = head
      THEN SubSeq(chunk, Len(head) + 1, Len(chunk))
      ELSE << >>

\* the returned chunks with the overlap prefixes removed, first to last: the
\* prefix of chunk i is the overlap text of chunk i-1 without its own prefix
WithoutOverlap(out, overlap) ==
  LET f[i \in 0..Len(out)] ==
        IF i = 0 THEN << >>
        ELSE IF i = 1 THEN << out[1] >>
        ELSE LET prefix == getOverlapText(f[i-1][i-1], overlap)
             IN  Append(f[i-1], IF overlap > 0 /\ prefix # << >>
                                THEN StripPrefix(prefix, out[i]) ELSE out[i])
  IN  f[Len(out)]

\* the sentences of the texts ts, in order
SentencesOf(ts) ==
  LET f[i \in 0..Len(ts)] ==
        IF i = 0 THEN << >> ELSE f[i-1] \o splitIntoSentences(ts[i])
  IN  f[Len(ts)]

\* a occurs in b as a subsequence
IsSubsequence(a, b) ==
  LET matched[j \in 0..Len(b)] ==
        IF j = 0 THEN 0
        ELSE LET m == matched[j-1]
             IN  IF m < Len(a) /\ b[j] = a[m + 1] THEN m + 1 ELSE m
  IN  matched[Len(b)] = Len(a)

ChunkSentences == SentencesOf(WithoutOverlap(chunker.out, chunker.p.overlap))

\* C14: with 0 < minSize <= targetSize <= maxSize, the returned chunks read in
\* order without their overlap prefixes contain every sentence of the text in
\* the original order
C14_SentencesKeptInOrder ==
  Done /\ OrderedSizes(chunker.p) =>
    IsSubsequence(splitIntoSentences(chunker.text), ChunkSentences)

\* three sentences came back in two chunks with an overlap prefix
C14_Witness ==
  /\ Done
  /\ chunker.p = Params(1200, 2, 800, 1500)
  /\ Len(splitIntoSentences(chunker.text)) = 3
  /\ Len(chunker.out) = 2
  /\ chunker.out[2] # chunker.pre[2]
  /\ ChunkSentences = splitIntoSentences(chunker.text)

\* the sentence loop and the final flush are over
Split == chunker.pc \in {"overlap", "merge", "done"}

\* C15: a text of 3000 characters without . ! ? under target 1200, min 800,
\* max 1500 is packed word by word, and every chunk of the splitting step is
\* at most 1500 long, except a last remainder below minSize that is merged
\* backward
C15_OversizedSentencePackedByWords ==
  /\ Split
  /\ chunker.text \in UnpunctuatedTexts
  /\ chunker.p.targetSize = 1200 /\ chunker.p.minSize = 800 /\ chunker.p.maxSize = 1500
  => /\ \A i \in 1..Len(chunker.st.chunks) : StrLen(chunker.st.chunks[i]) <= 1500
     /\ StrLen(chunker.st.currentChunk) >= 800 => StrLen(chunker.st.currentChunk) <= 1500

\* a call on three sentences of 2000 characters in all, with target 1200,
\* overlap 0, min 800, max 1500, has returned
ThreeSentenceCall ==
  /\ Done
  /\ chunker.text \in ThreeSentenceTexts
  /\ chunker.p = Params(1200, 0, 800, 1500)

AllAtLeast(cs, n) == \A i \in 1..Len(cs) : StrLen(cs[i]) >= n

C17_NoSmallChunkAmongSeveral ==
  Done /\ OrderedSizes(chunker.p) /\ Len(chunker.out) > 1 =>
    AllAtLeast(chunker.out, chunker.p.minSize)

\* two chunks came back after a last buffer below minSize was joined to the
\* chunk before it
C17_Witness ==
  /\ Done
  /\ OrderedSizes(chunker.p)
  /\ Len(chunker.out) = 2
  /\ Len(chunker.st.chunks) = 2
  /\ chunker.st.currentChunk # << >>
  /\ StrLen(chunker.st.currentChunk) < chunker.p.minSize
  /\ AllAtLeast(chunker.out, chunker.p.minSize)

\* the sentence loop has run at least one iteration
Iterated == chunker.pc # "off" /\ chunker.i > 1

\* C18: when the buffer has reached minSize and the buffer with the next
\* sentence would be longer than maxSize, the iteration emits the buffer
\* without that sentence, and nothing else, and the new buffer is exactly
\* that sentence
C18_OverflowEmitsBufferOnly ==
  /\ Iterated
  /\ StrLen(chunker.last.buffer) >= chunker.p.minSize
  /\ StrLen(JoinSp(chunker.last.buffer, chunker.last.sentence)) > chunker.p.maxSize
  => /\ chunker.last.pushed = << chunker.last.buffer >>
     /\ chunker.st.currentChunk = chunker.last.sentence

IsWordRun(r) == r.k = "w"

\* the last n whitespace-separated words of a chunk, one space between them;
\* the whole chunk when it has at most n words
LastWords(chunk, n) ==
  LET ws == SelectSeq(chunk, IsWordRun)
      from == Len(ws) - n
  IN  IF Len(ws) <= n THEN chunk
      ELSE [j \in 1..(2 * n - 1) |->
              IF j % 2 = 1 THEN ws[from + (j + 1) \div 2] ELSE WS(1)]

\* the overlap pass is over
Overlapped == chunker.pc \in {"merge", "done"}

HealingRun ==
  /\ Reporting
  /\ prevRun.ran
  /\ prevRun.errors > 0
  /\ options.reembed = "none"
  /\ runLog.failures = 0
  /\ runLog.embedFailures = 0
  /\ runLog.fetchFailed = << >>
  /\ ~prevRun.sourceChanged
  /\ ~runLog.sourceChanged

\* every chunk of the document's content is stored under the document
AllChunksStored(doc) ==
  LET cs == chunksOf(doc.content)
  IN  \A k \in 1..Len(cs) :
        /\ << << doc.source_table, doc.source_id >>, k - 1 >> \in DOMAIN chunkTable
        /\ chunkTable[<< << doc.source_table, doc.source_id >>, k - 1 >>].content = cs[k]

\* C20: after a run in which a row failed part-way, a failure-free run in
\* mode 'none' over the unchanged source leaves every non-empty document of
\* the processed collections (rows from the start offset on, source ids
\* pairwise different) with all chunks of its content stored
C20_FailedRowHealedByNextRun ==
  HealingRun =>
    \A n \in 1..Len(validTables) :
      LET t == validTables[n]
      IN  DistinctSourceIds(t) =>
            \A i \in (options.offset + 1)..Len(source[t]) :
              source[t][i].typ = "string" /\ ~IsBlank(transformRow(t, source[t][i]).content)
                => AllChunksStored(transformRow(t, source[t][i]))

\* C21: every stored chunk with an embedding holds the vector the provider
\* returns for the content stored with it
C21_EmbeddingMatchesContent ==
  \A k \in DOMAIN chunkTable :
    chunkTable[k].embedding # Null => chunkTable[k].embedding = EmbeddingOf(chunkTable[k].content)

\* processRow has returned after writing every chunk of the row
RowCompleted == rowLog.head = "done"

\* C22: after a row was processed to completion, the chunks stored for its
\* document are exactly the chunks of its content, at the indexes 0..n-1
C22_NoLeftoverChunks ==
  RowCompleted =>
    /\ IndexesOf(documentId) = 0..(Len(chunks) - 1)
    /\ \A i \in 0..(Len(chunks) - 1) :
         << documentId, i >> \in DOMAIN chunkTable
           => chunkTable[<< documentId, i >>].content = chunks[i + 1]

\* C23: a chunk position that held an embedding when the row reached it still
\* holds one after the row has written it, whether or not the provider call
\* failed
C23_EmbedFailureKeepsStoredVector ==
  \A i \in 1..Len(Trace) :
    Trace[i].written /\ StoredVector(Trace[i]) # Null
      => chunkTable[<< documentId, Trace[i].index >>].embedding # Null

\* C24: for a text longer than targetSize and 0 < minSize <= targetSize <=
\* maxSize, the chunks before the overlap pass hold every sentence of the
\* text exactly once, in order
C24_EachSentenceInOneChunk ==
  /\ Split
  /\ OrderedSizes(chunker.p)
  /\ StrLen(chunker.text) > chunker.p.targetSize
  => SentencesOf(chunker.pre) = splitIntoSentences(chunker.text)

\* the chunk upserts of the run that stored a newly computed embedding for a
\* row of table t
StoredNew(t) == Cardinality({ i \in 1..Len(runLog.stored) : runLog.stored[i] = t })

\* C25: when the collections of a run are finished, embeddingsWritten of a
\* collection does not exceed its chunksCreated and equals the number of its
\* chunk upserts that stored a newly computed embedding
C25_EmbeddingsWrittenCountsStores ==
  Reporting =>
    \A t \in DOMAIN stats :
      /\ stats[t].embeddingsWritten <= stats[t].chunksCreated
      /\ stats[t].embeddingsWritten = StoredNew(t)

\* C26: with 0 < minSize <= targetSize <= maxSize, a call that reaches the
\* final merge pass returns the overlapped chunks as they are, as many as
\* there were chunks before the overlap pass
C26_FinalMergeChangesNothing ==
  /\ Done
  /\ OrderedSizes(chunker.p)
  /\ StrLen(chunker.text) > chunker.p.targetSize
  => /\ chunker.out = chunker.withOverlap
     /\ Len(chunker.out) = Len(chunker.pre)

\* two overlapped chunks went through the merge pass and came back as they
\* were
C26_Witness ==
  /\ Done
  /\ OrderedSizes(chunker.p)
  /\ chunker.p.overlap > 0
  /\ Len(chunker.pre) = 2
  /\ chunker.withOverlap # chunker.pre
  /\ chunker.out = chunker.withOverlap
====
